---- MODULE Spec2Model ----
(***************************************************************************)
(* A model of the M-Pesa gateway: the sliding-window rate limiter, the     *)
(* OAuth token cache of MpesaService, the STK push dispatcher with its     *)
(* controller, and the callback processor with its controller.             *)
(*                                                                         *)
(* JavaScript values are modelled as tagged records so that a number, a    *)
(* string and undefined stay distinct values ("0" is not 0).  Strings the  *)
(* code inspects character by character are sequences of one-character     *)
(* strings.  Amounts are counted in halves (h = 2 * amount) so that a      *)
(* fractional amount such as 0.5 or 1.5 is a value of the model.           *)
(***************************************************************************)
EXTENDS Integers, Sequences, FiniteSets, TLC

VARIABLES
    now,             \* the wall clock: Date.now() / moment()
    maxRequests,     \* rateLimit(maxRequests, windowMs): the capacity
    windowMs,        \* rateLimit(maxRequests, windowMs): the window
    rateLimitStore,  \* Map clientIp -> array of request times
    accepted,        \* history: every request time passed on to next(), per client
    rlLast,          \* the outcome of the latest rate-limited request
    unswept,         \* history: the store a limiter that never sweeps would hold
    accessToken,     \* MpesaService.accessToken (0 is null)
    tokenExpiry,     \* MpesaService.tokenExpiry
    issued,          \* history: the successful credential exchanges
    exchangeCount,   \* history: the credential exchanges sent so far
    call,            \* per process: the getAccessToken / stkpush call in progress
    cbLast,          \* the latest callback request, its processing and its responses
    helper           \* the call in progress of a function of utils/helpers.js

vars == <<now, maxRequests, windowMs, rateLimitStore, accepted, rlLast, unswept,
          accessToken, tokenExpiry, issued, exchangeCount, call, cbLast, helper>>

rateVars  == <<maxRequests, windowMs, rateLimitStore, accepted, rlLast, unswept>>
tokenVars == <<accessToken, tokenExpiry, issued, exchangeCount>>

-----------------------------------------------------------------------------
(* Bounds of the model *)

MaxTime == 2
MaxCapacity == 2
MaxWindow == 2
MaxExchanges == 2
MaxExtraLifetime == 1
MaxItems == 2

\* The client addresses (req.ip).
Clients == {"ip1", "ip2"}
\* The requests in progress at one time (each is an async handler).
Procs == {"p1", "p2"}

-----------------------------------------------------------------------------
(* JavaScript values *)

Undefined == [t |-> "undef", h |-> 0, s |-> ""]
NaN == [t |-> "nan", h |-> 0, s |-> ""]
JSTrue == [t |-> "bool", h |-> 2, s |-> ""]
\* A number, counted in halves: Num(20) is 10, Num(1) is 0.5.
Num(h) == [t |-> "num", h |-> h, s |-> ""]
\* A whole number n.
Int2(n) == Num(2 * n)
Str(s) == [t |-> "str", h |-> 0, s |-> s]

\* !v : undefined, NaN, 0 and "" are falsy.
Falsy(v) ==
    \/ v.t \in {"undef", "nan"}
    \/ v.t = "num" /\ v.h = 0
    \/ v.t = "str" /\ v.s = ""

-----------------------------------------------------------------------------
(* Strings the code inspects: sequences of one-character strings *)

NoChars == [t |-> "undef", chars |-> <<>>]
Chars(cs) == [t |-> "str", chars |-> cs]
\* A JSON number where a string is expected.
NotAString == [t |-> "num", chars |-> <<>>]

Digits == {"0", "1", "2", "3", "4", "5", "6", "7", "8", "9"}

\* s.startsWith(prefix)
StartsWith(s, prefix) ==
    /\ Len(s) >= Len(prefix)
    /\ SubSeq(s, 1, Len(prefix)) = prefix

\* s.includes(part)
Includes(s, part) ==
    \E i \in 0..(Len(s) - Len(part)) : SubSeq(s, i + 1, i + Len(part)) = part

\* s.toLowerCase(), for the letters the model's strings use.
ToLowerCase(s) ==
    [i \in DOMAIN s |->
        CASE s[i] = "T" -> "t" [] s[i] = "I" -> "i" [] s[i] = "L" -> "l"
          [] s[i] = "E" -> "e" [] s[i] = "S" -> "s" [] OTHER -> s[i]]

NoBody == [phone |-> NoChars, amount |-> Undefined, accountReference |-> NoChars]
NoPayload == [TransactionType |-> "", Amount |-> 0, PartyA |-> <<>>,
              PhoneNumber |-> <<>>, AccountReference |-> <<>>, Timestamp |-> 0]
NoPostResponse == [kind |-> "none", ResponseCode |-> Undefined,
                   ResponseDescription |-> Undefined, errorMessage |-> Undefined,
                   MerchantRequestID |-> Undefined, CheckoutRequestID |-> Undefined]
NoStkResult == [success |-> FALSE, merchantRequestID |-> Undefined,
                checkoutRequestID |-> Undefined, responseCode |-> Undefined]

-----------------------------------------------------------------------------
(* The clock *)

Tick ==
    /\ now < MaxTime
    /\ now' = now + 1

-----------------------------------------------------------------------------
(* The rate limiter *)

MsPerSecond == 1000

\* The milliseconds between two readings of Date.now() that differ.
TickMs == 700

FloorDiv(a, b) == a \div b

\* Math.ceil(a / b) for b > 0.
CeilDiv(a, b) == -((-a) \div b)

\* rateLimitStore.get(clientIp) || []
GetRecord(store, c) == IF c \in DOMAIN store THEN store[c] ELSE <<>>

\* store.set(c, record)
SetRecord(store, c, record) ==
    [k \in (DOMAIN store) \cup {c} |-> IF k = c THEN record ELSE store[k]]

RecentInclusive(record, windowStart) ==
    SelectSeq(record, LAMBDA requestTime : requestTime >= windowStart)

\* clientRecord.filter(requestTime => requestTime > windowStart)
Recent(record, windowStart) ==
    SelectSeq(record, LAMBDA requestTime : requestTime > windowStart)

cleanupOlderThanNow(store, windowStart) ==
    LET kept == {c \in DOMAIN store :
                    Len(SelectSeq(store[c], LAMBDA requestTime : requestTime > now)) # 0}
    IN  [c \in kept |->
            SelectSeq(store[c], LAMBDA requestTime : requestTime > now)]

\* One pass of the loop of cleanupRateLimitStore over every entry.
cleanupRateLimitStore(store, windowStart) ==
    LET kept == {c \in DOMAIN store :
                    Len(SelectSeq(store[c], LAMBDA requestTime : requestTime > windowStart)) # 0}
    IN  [c \in kept |->
            SelectSeq(store[c], LAMBDA requestTime : requestTime > windowStart)]

\* remainingTime of the 429 body; clientRecord[0] is undefined in an empty record.
RemainingTime(clientRecord, window, currentTime) ==
    IF Len(clientRecord) = 0
    THEN [isNaN |-> TRUE, v |-> 0]
    ELSE [isNaN |-> FALSE,
          v |-> CeilDiv(clientRecord[1] + window - currentTime, MsPerSecond)]

\* The middleware returned by rateLimit(maxRequests, windowMs), for one request
\* of client c; sweep is the outcome of Math.random() < 0.1.
rateLimit(c, sweep) ==
    LET currentTime == now
        windowStart == currentTime - windowMs
        clientRecord == Recent(GetRecord(rateLimitStore, c), windowStart)
        \* history: the same request against the store that was never swept
        unsweptRecord == SelectSeq(GetRecord(unswept, c),
                                   LAMBDA requestTime : requestTime > windowStart)
        unsweptStatus == IF Len(unsweptRecord) >= maxRequests THEN "429" ELSE "next"
        unsweptNext == IF unsweptStatus = "429" THEN unswept
                       ELSE SetRecord(unswept, c, Append(unsweptRecord, currentTime))
        \* history: an earlier sweep has discarded part of this client's record
        sweptEarlier == GetRecord(rateLimitStore, c) # GetRecord(unswept, c)
    IN  IF Len(clientRecord) >= maxRequests
        THEN /\ rlLast' = [client |-> c, time |-> currentTime, status |-> "429",
                           remainingTime |-> RemainingTime(clientRecord, windowMs, currentTime),
                           swept |-> FALSE, unsweptStatus |-> unsweptStatus,
                           sweptEarlier |-> sweptEarlier]
             /\ unswept' = unsweptNext
             /\ UNCHANGED <<rateLimitStore, accepted>>
        ELSE LET pushed == SetRecord(rateLimitStore, c, Append(clientRecord, currentTime))
             IN  /\ rateLimitStore' = IF sweep
                                      THEN cleanupRateLimitStore(pushed, windowStart)
                                      ELSE pushed
                 /\ accepted' = [accepted EXCEPT ![c] = Append(@, currentTime)]
                 /\ unswept' = unsweptNext
                 /\ rlLast' = [client |-> c, time |-> currentTime, status |-> "next",
                               remainingTime |-> [isNaN |-> FALSE, v |-> 0],
                               swept |-> sweep, unsweptStatus |-> unsweptStatus,
                               sweptEarlier |-> sweptEarlier]

RateLimitRequest ==
    /\ \E c \in Clients, sweep \in BOOLEAN : rateLimit(c, sweep)
    /\ UNCHANGED <<now, maxRequests, windowMs, tokenVars, call, cbLast, helper>>

RateTick ==
    /\ now < MaxTime * TickMs
    /\ now' = now + TickMs
    /\ UNCHANGED <<rateVars, tokenVars, call, cbLast, helper>>

-----------------------------------------------------------------------------
(* The initial state *)

NullToken == 0
NullExpiry == [isNull |-> TRUE, at |-> 0]
NoSnap == [token |-> NullToken, expiry |-> NullExpiry, time |-> 0]
NoStore == [token |-> NullToken, expiry |-> 0, at |-> 0, lifetime |-> 0]

\* A process that is not inside a request.
IdleCall ==
    [pc |-> "idle", kind |-> "none",
     snap |-> NoSnap,         \* history: the cache and the clock when getAccessToken began
     exch |-> 0,              \* history: credential exchanges sent by this call
     stored |-> NoStore,      \* history: what this call wrote to the cache
     token |-> NullToken,     \* the token getAccessToken returned to this call
     error |-> "",            \* the message of the error raised, "" when none
     status |-> 0,            \* the HTTP status answered, 0 while unanswered
     body |-> NoBody,         \* req.body of a stkpush request
     transactionType |-> "",  \* the local transactionType of initiateSTKPush
     payload |-> NoPayload,   \* the payload POSTed to the provider
     posts |-> 0,             \* history: payment POSTs sent by this call
     resp |-> NoPostResponse, \* the provider's answer to the POST
     result |-> NoStkResult]  \* what initiateSTKPush returned

\* The state after construction, for a limiter made by rateLimit(capacity, window).
InitWith(capacity, window) ==
    /\ now = 0
    /\ maxRequests = capacity
    /\ windowMs = window
    /\ rateLimitStore = << >>
    /\ accepted = [c \in Clients |-> <<>>]
    /\ rlLast = [client |-> "none", time |-> 0, status |-> "none",
                 remainingTime |-> [isNaN |-> FALSE, v |-> 0], swept |-> FALSE,
                 unsweptStatus |-> "none", sweptEarlier |-> FALSE]
    /\ accessToken = NullToken
    /\ tokenExpiry = NullExpiry
    /\ issued = {}
    /\ exchangeCount = 0
    /\ call = [p \in Procs |-> IdleCall]
    /\ cbLast = [pc |-> "none"]
    /\ unswept = << >>

\* No function of utils/helpers.js is being called.
NoHelper == [fn |-> "none", pc |-> "none"]

Init == InitWith(MaxCapacity, MaxWindow * TickMs) /\ helper = NoHelper

\* Every limiter configuration within the bounds; the window is a whole
\* number of clock steps.
InitRate ==
    /\ \E capacity \in 0..MaxCapacity, window \in 1..MaxWindow :
          InitWith(capacity, window * TickMs)
    /\ helper = NoHelper

-----------------------------------------------------------------------------
(* The rate limiter alone *)

NextRate == RateLimitRequest \/ RateTick

SpecRate == InitRate /\ [][NextRate]_vars

\* The accepted request times of a history that lie strictly after t.
CountAfter(history, t) ==
    Cardinality({i \in DOMAIN history : history[i] > t})

\* The accepted requests of the client that came before the latest request.
Earlier ==
    IF rlLast.status = "none" THEN <<>>
    ELSE IF rlLast.status = "next"
    THEN SubSeq(accepted[rlLast.client], 1, Len(accepted[rlLast.client]) - 1)
    ELSE accepted[rlLast.client]

\* C1: a request of client c at time t is passed on exactly when fewer than
\* maxRequests earlier accepted requests of c are later than t - windowMs; a
\* rejected request is not recorded; and no client ever has more than
\* maxRequests accepted requests inside one window.
C1_SlidingWindow ==
    /\ rlLast.status # "none" =>
          /\ (rlLast.status = "next") <=>
                (CountAfter(Earlier, rlLast.time - windowMs) < maxRequests)
          /\ rlLast.status = "next" =>
                accepted[rlLast.client][Len(accepted[rlLast.client])] = rlLast.time
    /\ \A c \in Clients : \A u \in {k * TickMs : k \in 0..MaxTime} :
          Cardinality({i \in DOMAIN accepted[c] :
                          accepted[c][i] > u - windowMs /\ accepted[c][i] <= u})
             <= maxRequests

\* A client filled its window, was rejected, and was accepted again after the
\* window elapsed, with entries of the old window still in its history.
C1_Witness ==
    /\ rlLast.status = "next"
    /\ maxRequests >= 1
    /\ Len(accepted[rlLast.client]) > maxRequests
    /\ CountAfter(Earlier, rlLast.time - windowMs) < Len(Earlier)

\* The oldest accepted request time of the latest client that is still inside
\* the window of the latest request.
OldestRetained ==
    LET inside == {accepted[rlLast.client][i] : i \in DOMAIN accepted[rlLast.client]}
                     \cap {x \in 0..(MaxTime * TickMs) : x > rlLast.time - windowMs}
    IN  CHOOSE x \in inside : \A y \in inside : x <= y

\* The least whole number of seconds that is no shorter than ms milliseconds.
WholeSecondsUp(ms) ==
    CHOOSE n \in 0..(ms + 1) : n * MsPerSecond >= ms /\ (n - 1) * MsPerSecond < ms

\* The retry-after estimate of the latest rejection is a number, is positive,
\* and is the time until the oldest retained request leaves the window,
\* rounded up to whole seconds.
EstimateIsTimeToExit ==
    /\ ~rlLast.remainingTime.isNaN
    /\ rlLast.remainingTime.v > 0
    /\ rlLast.remainingTime.v =
          WholeSecondsUp(OldestRetained + windowMs - rlLast.time)

\* C11 (as claimed): every rejection carries such an estimate.
C11_EveryRejection ==
    rlLast.status = "429" => EstimateIsTimeToExit

\* C11 (amended): every rejection by a limiter of capacity 1 or more carries
\* a positive retry-after estimate equal to the time, rounded up to whole
\* seconds, until the oldest retained request of the client leaves the window.
C11_RejectionWithRetained ==
    (rlLast.status = "429" /\ maxRequests >= 1) => EstimateIsTimeToExit

\* A rejection whose oldest retained request leaves the window in more than
\* one second and not in a whole number of seconds.
C11_Witness ==
    /\ rlLast.status = "429"
    /\ maxRequests >= 1
    /\ rlLast.remainingTime.v = 2
    /\ OldestRetained + windowMs - rlLast.time < 2 * MsPerSecond

\* The timestamps of a record that are inside the window ending at the
\* current time.
InWindow(record) ==
    SelectSeq(record, LAMBDA requestTime : requestTime > now - windowMs)

\* C16: the sweep is unobservable. The outcome of every request is the one
\* the limiter gives when no sweep ever runs, and the store differs from the
\* never-swept store only in timestamps outside the current window (a client
\* record is missing only when none of its timestamps is inside the window).
C16_SweepUnobservable ==
    /\ rlLast.status # "none" => rlLast.status = rlLast.unsweptStatus
    /\ \A c \in Clients :
          InWindow(GetRecord(rateLimitStore, c)) = InWindow(GetRecord(unswept, c))
    /\ \A c \in DOMAIN unswept :
          c \notin DOMAIN rateLimitStore => InWindow(unswept[c]) = <<>>

\* A request is decided for a client whose record an earlier sweep deleted
\* or shortened.
C16_Witness ==
    /\ rlLast.status = "next"
    /\ rlLast.sweptEarlier

-----------------------------------------------------------------------------
(* The token cache: MpesaService.getAccessToken.  The clock counts seconds. *)

SafetyMargin == 60

\* The lifetimes (expires_in) the authorization server may grant.
Lifetimes == (SafetyMargin - 1)..(SafetyMargin + MaxExtraLifetime)

\* What axios.get(authUrl) may produce: a rejection, a body without an
\* access_token, or a body with a token and its lifetime.
AuthResponses ==
    {[kind |-> "error", expires_in |-> 0], [kind |-> "notoken", expires_in |-> 0]}
    \cup {[kind |-> "token", expires_in |-> l] : l \in Lifetimes}

TokenStillValidInclusive ==
    /\ accessToken # NullToken
    /\ ~tokenExpiry.isNull
    /\ now <= tokenExpiry.at

\* this.accessToken && this.tokenExpiry && moment().isBefore(this.tokenExpiry)
TokenStillValid ==
    /\ accessToken # NullToken
    /\ ~tokenExpiry.isNull
    /\ now < tokenExpiry.at

\* moment().add(expires_in - 60, 'seconds')
NewExpiry(expires_in) == [isNull |-> FALSE, at |-> now + (expires_in - SafetyMargin)]

StoreTokenKeepLaterExpiry(tok, expires_in) ==
    /\ accessToken' = tok
    /\ tokenExpiry' = IF ~tokenExpiry.isNull /\ tokenExpiry.at > NewExpiry(expires_in).at
                      THEN tokenExpiry
                      ELSE NewExpiry(expires_in)

\* this.accessToken = response.data.access_token; this.tokenExpiry = ...
StoreToken(tok, expires_in) ==
    /\ accessToken' = tok
    /\ tokenExpiry' = NewExpiry(expires_in)

AuthFailureStoresExpiry ==
    /\ tokenExpiry' = [isNull |-> FALSE, at |-> now]
    /\ UNCHANGED accessToken

\* throw new Error('Failed to authenticate with M-Pesa API'): nothing is stored.
AuthFailure == UNCHANGED <<accessToken, tokenExpiry>>

AuthErrorMessage == "Failed to authenticate with M-Pesa API"

\* The token the server issues in its next successful exchange.
FreshToken == Cardinality(issued) + 1

\* getAccessToken up to its first await, for process p whose call record
\* becomes c: a cache hit returns at once (onHit), a miss sends the exchange.
GetAccessTokenBegin(p, c, onHit) ==
    LET c1 == [c EXCEPT !.snap = [token |-> accessToken, expiry |-> tokenExpiry,
                                   time |-> now]]
    IN  IF TokenStillValid
        THEN /\ call' = [call EXCEPT ![p] = [c1 EXCEPT !.pc = onHit,
                                                         !.token = accessToken]]
             /\ UNCHANGED <<accessToken, tokenExpiry, issued, exchangeCount>>
        ELSE /\ exchangeCount < MaxExchanges
             /\ exchangeCount' = exchangeCount + 1
             /\ call' = [call EXCEPT ![p] = [c1 EXCEPT !.pc = "authing", !.exch = @ + 1]]
             /\ UNCHANGED <<accessToken, tokenExpiry, issued>>

\* getAccessToken after its await: the response r of the exchange arrives.
\* On success the call goes on at onOk, on failure it is answered 500.
GetAccessTokenEnd(p, r, onOk) ==
    /\ call[p].pc = "authing"
    /\ IF r.kind = "token"
       THEN /\ StoreToken(FreshToken, r.expires_in)
            /\ issued' = issued \cup {[token |-> FreshToken, at |-> now,
                                       lifetime |-> r.expires_in]}
            /\ call' = [call EXCEPT ![p] =
                          [@ EXCEPT !.pc = onOk, !.token = FreshToken,
                                    !.stored = [token |-> accessToken',
                                                expiry |-> tokenExpiry'.at,
                                                at |-> now,
                                                lifetime |-> r.expires_in]]]
       ELSE /\ AuthFailure
            /\ issued' = issued
            /\ call' = [call EXCEPT ![p] =
                          [@ EXCEPT !.pc = "done", !.error = AuthErrorMessage,
                                    !.status = 500]]
    /\ UNCHANGED exchangeCount

\* MpesaController.getStatus: GET /api/mpesa/status, up to the await.
GetStatus(p) ==
    /\ call[p].pc = "idle"
    /\ GetAccessTokenBegin(p, [IdleCall EXCEPT !.kind = "status"], "gotToken")
    /\ UNCHANGED <<now, rateVars, cbLast, helper>>

\* getStatus, the exchange answered.
GetStatusAuthResponse(p) ==
    /\ call[p].kind = "status"
    /\ \E r \in AuthResponses : GetAccessTokenEnd(p, r, "gotToken")
    /\ UNCHANGED <<now, rateVars, cbLast, helper>>

\* getStatus after the await returned a token: res.status(200).
GetStatusRespond(p) ==
    /\ call[p].kind = "status"
    /\ call[p].pc = "gotToken"
    /\ call' = [call EXCEPT ![p] = [@ EXCEPT !.pc = "done", !.status = 200]]
    /\ UNCHANGED <<now, rateVars, tokenVars, cbLast, helper>>

\* The process is free for its next request.
Finish(p) ==
    /\ call[p].pc = "done"
    /\ call' = [call EXCEPT ![p] = IdleCall]
    /\ UNCHANGED <<now, rateVars, tokenVars, cbLast, helper>>

TokenTick ==
    /\ Tick
    /\ UNCHANGED <<rateVars, tokenVars, call, cbLast, helper>>

NextToken ==
    \/ \E p \in Procs : GetStatus(p)
    \/ \E p \in Procs : GetStatusAuthResponse(p)
    \/ \E p \in Procs : GetStatusRespond(p)
    \/ \E p \in Procs : Finish(p)
    \/ TokenTick

SpecToken == Init /\ [][NextToken]_vars

\* The cache a call found was VALID and not yet expired.
FoundFresh(c) ==
    /\ c.snap.token # NullToken
    /\ ~c.snap.expiry.isNull
    /\ c.snap.time < c.snap.expiry.at

\* The call obtained a token (it is past getAccessToken without an error).
Returned(c) == c.pc \in {"gotToken", "posting", "done"} /\ c.token # NullToken

\* C2: a call made while the clock is before the stored expiry returns the
\* cached token and sends no credential exchange; a call made otherwise sends
\* exactly one, and on success stores the new token with
\* expiry = now + lifetime - 60 s.
C2_CacheHitOrOneRefresh ==
    \A p \in Procs :
        LET c == call[p] IN
        c.pc # "idle" /\ c.kind = "status" =>
            IF FoundFresh(c)
            THEN /\ c.exch = 0
                 /\ c.token = c.snap.token
                 /\ c.stored = NoStore
                 /\ c.error = ""
            ELSE /\ c.exch = 1
                 /\ Returned(c) =>
                       /\ c.stored.token = c.token
                       /\ c.stored.expiry = c.stored.at + c.stored.lifetime - SafetyMargin

\* One process was served from the cache while another had refreshed after expiry.
C2_Witness ==
    \E p, q \in Procs :
        /\ call[p].pc = "done" /\ FoundFresh(call[p]) /\ call[p].status = 200
        /\ call[q].pc = "done" /\ ~FoundFresh(call[q]) /\ call[q].status = 200
        /\ call[q].snap.token # NullToken

\* C4: a failed credential exchange raises the authentication error and
\* leaves the stored token and expiry as they were (an EMPTY cache stays
\* EMPTY), and a call that finds the cache EMPTY sends a fresh exchange.
C4_FailureStoresNothing ==
    [][\A p \in Procs :
          /\ (call[p].pc = "authing" /\ call'[p].pc = "done") =>
                /\ call'[p].error = AuthErrorMessage
                /\ call'[p].status = 500
                /\ accessToken' = accessToken
                /\ tokenExpiry' = tokenExpiry
                /\ (accessToken = NullToken /\ tokenExpiry.isNull) =>
                      (accessToken' = NullToken /\ tokenExpiry'.isNull)
          /\ (call[p].pc = "idle" /\ call'[p].pc # "idle" /\ accessToken = NullToken) =>
                /\ call'[p].pc = "authing"
                /\ exchangeCount' = exchangeCount + 1
      ]_vars

\* An exchange failed on an EMPTY cache, the cache is still EMPTY, and a later
\* call has sent a fresh exchange.
C4_Witness ==
    \E p, q \in Procs :
        /\ call[p].pc = "done" /\ call[p].error = AuthErrorMessage
        /\ call[p].snap.token = NullToken
        /\ accessToken = NullToken /\ tokenExpiry.isNull
        /\ call[q].pc = "authing" /\ exchangeCount >= 2
        /\ issued = {}

\* C5: under every interleaving of overlapping calls the stored token and the
\* stored expiry are both unset or both written by one successful exchange,
\* and a call that returns yields a token some successful exchange issued.
C5_WholesaleReplacement ==
    /\ \/ accessToken = NullToken /\ tokenExpiry.isNull
       \/ /\ ~tokenExpiry.isNull
          /\ \E e \in issued :
                /\ e.token = accessToken
                /\ tokenExpiry.at = e.at + e.lifetime - SafetyMargin
    /\ \A p \in Procs :
          Returned(call[p]) => \E e \in issued : e.token = call[p].token

\* Two refreshes raced: both were in flight together, both succeeded, and the
\* one that stored last granted the earlier expiry.
C5_Witness ==
    \E p, q \in Procs :
        /\ p # q
        /\ Returned(call[p]) /\ Returned(call[q])
        /\ call[p].exch = 1 /\ call[q].exch = 1
        /\ call[p].snap.token = NullToken /\ call[q].snap.token = NullToken
        /\ accessToken = call[q].token
        /\ call[q].stored.expiry < call[p].stored.expiry

-----------------------------------------------------------------------------
(* The callback processor: MpesaService.processCallback and                *)
(* MpesaController.handleCallback.                                         *)

\* The Name of a metadata item: the four the provider documents, one the
\* switch does not know, and one that collides with a renamed key.
ItemNames == {"Amount", "MpesaReceiptNumber", "TransactionDate", "PhoneNumber",
              "Balance", "amount"}
ItemValues == {Int2(1), Str("NLJ7RT61SV")}
Items == [Name : ItemNames, Value : ItemValues]

ItemLists == UNION {[1..n -> Items] : n \in 0..MaxItems}

\* stkCallback.CallbackMetadata: missing, present without Item, or with a list.
Metadata ==
    {[kind |-> "undef", Item |-> <<>>], [kind |-> "noItem", Item |-> <<>>]}
    \cup {[kind |-> "items", Item |-> l] : l \in ItemLists}

StkCallbacks ==
    [MerchantRequestID : {Undefined, Str("29115-34620561-1")},
     CheckoutRequestID : {Str("ws_CO_191220191020363925")},
     ResultCode : {Int2(0), Int2(1032), Str("0"), Undefined},
     ResultDesc : {Str("desc")},
     CallbackMetadata : Metadata]

NoStk == [MerchantRequestID |-> Undefined, CheckoutRequestID |-> Undefined,
          ResultCode |-> Undefined, ResultDesc |-> Undefined,
          CallbackMetadata |-> [kind |-> "undef", Item |-> <<>>]]

\* req.body: undefined, {} (no Body), {Body: {}} (no stkCallback), or the
\* provider's shape {Body: {stkCallback: ...}}.
CallbackBodies ==
    {[shape |-> sh, stk |-> NoStk] : sh \in {"undefined", "noBody", "noStkCallback"}}
    \cup {[shape |-> "stkCallback", stk |-> k] : k \in StkCallbacks}

NoPaymentData == [present |-> FALSE, map |-> << >>]

NoResult == [merchantRequestID |-> Undefined, checkoutRequestID |-> Undefined,
             resultCode |-> Undefined, resultDesc |-> Undefined, timestamp |-> 0,
             status |-> "", paymentData |-> NoPaymentData]

\* The key the switch of processCallback stores an item under.
PaymentKey(name) ==
    CASE name = "Amount" -> "amount"
      [] name = "MpesaReceiptNumber" -> "mpesaReceiptNumber"
      [] name = "TransactionDate" -> "transactionDate"
      [] name = "PhoneNumber" -> "phoneNumber"
      [] OTHER -> name

\* paymentData[key] = value
Assign(obj, key, value) ==
    [k \in (DOMAIN obj) \cup {key} |-> IF k = key THEN value ELSE obj[k]]

RECURSIVE ForEachItemKnownOnly(_, _, _)
ForEachItemKnownOnly(items, i, paymentData) ==
    IF i > Len(items) THEN paymentData
    ELSE ForEachItemKnownOnly(items, i + 1,
            IF PaymentKey(items[i].Name) # items[i].Name
            THEN Assign(paymentData, PaymentKey(items[i].Name), items[i].Value)
            ELSE paymentData)

\* items.forEach(item => { switch (item.Name) ... }) from item i on.
RECURSIVE ForEachItem(_, _, _)
ForEachItem(items, i, paymentData) ==
    IF i > Len(items) THEN paymentData
    ELSE ForEachItem(items, i + 1,
            Assign(paymentData, PaymentKey(items[i].Name), items[i].Value))

CallbackErrorMessage == "Failed to process M-Pesa callback"

Threw(message) == [threw |-> TRUE, message |-> message, result |-> NoResult]

\* MpesaService.processCallback(callbackData): the result it resolves to, or
\* the error it rejects with.  Destructuring undefined, reading a property of
\* undefined and calling forEach of undefined raise a TypeError, which the
\* catch block replaces by the error above.
processCallback(callbackData) ==
    IF callbackData.shape # "stkCallback"
    THEN Threw(CallbackErrorMessage)
    ELSE LET stkCallback == callbackData.stk
             result == [merchantRequestID |-> stkCallback.MerchantRequestID,
                        checkoutRequestID |-> stkCallback.CheckoutRequestID,
                        resultCode |-> stkCallback.ResultCode,
                        resultDesc |-> stkCallback.ResultDesc,
                        timestamp |-> now,
                        status |-> "",
                        paymentData |-> NoPaymentData]
         IN  IF stkCallback.ResultCode.t = "num" /\ stkCallback.ResultCode.h = 0
             THEN IF stkCallback.CallbackMetadata.kind # "items"
                  THEN Threw(CallbackErrorMessage)
                  ELSE [threw |-> FALSE, message |-> "",
                        result |-> [result EXCEPT
                           !.paymentData =
                               [present |-> TRUE,
                                map |-> ForEachItem(stkCallback.CallbackMetadata.Item,
                                                    1, << >>)],
                           !.status = "SUCCESS"]]
             ELSE [threw |-> FALSE, message |-> "",
                   result |-> [result EXCEPT !.status = "FAILED"]]

\* The response of the try block of handleCallback.
CallbackSuccessResponse(result) ==
    [status |-> 200, success |-> TRUE, message |-> "Callback processed successfully",
     error |-> "", data |-> result]

CallbackFailureResponse500(message) ==
    [status |-> 500, success |-> FALSE, message |-> "Callback processing failed",
     error |-> message, data |-> NoResult]

\* The response of the catch block of handleCallback.
CallbackFailureResponse(message) ==
    [status |-> 200, success |-> FALSE, message |-> "Callback processing failed",
     error |-> message, data |-> NoResult]

\* MpesaController.handleCallback: POST /api/mpesa/callback with body.
handleCallback(body) ==
    LET outcome == processCallback(body)
    IN  cbLast' = [pc |-> "done", body |-> body, outcome |-> outcome,
                   responses |-> IF outcome.threw
                                 THEN <<CallbackFailureResponse(outcome.message)>>
                                 ELSE <<CallbackSuccessResponse(outcome.result)>>]

HandleCallback ==
    /\ cbLast.pc = "none"
    /\ \E body \in CallbackBodies : handleCallback(body)
    /\ UNCHANGED <<now, rateVars, tokenVars, call, helper>>

\* The request is over; the next callback may arrive.
CallbackDone ==
    /\ cbLast.pc = "done"
    /\ cbLast' = [pc |-> "none"]
    /\ UNCHANGED <<now, rateVars, tokenVars, call, helper>>

CallbackTick ==
    /\ Tick
    /\ UNCHANGED <<rateVars, tokenVars, call, cbLast, helper>>

NextCallback == HandleCallback \/ CallbackDone \/ CallbackTick

SpecCallback == Init /\ [][NextCallback]_vars

\* C3: every callback request is answered exactly once, with HTTP 200; a
\* failure of processCallback shows only as success = false in the body.
C3_CallbackAlways200 ==
    cbLast.pc = "done" =>
        /\ Len(cbLast.responses) = 1
        /\ cbLast.responses[1].status = 200
        /\ cbLast.responses[1].success = ~cbLast.outcome.threw

\* processCallback raised and the callback was still acknowledged with 200.
C3_Witness ==
    /\ cbLast.pc = "done"
    /\ cbLast.outcome.threw
    /\ cbLast.responses = <<CallbackFailureResponse(CallbackErrorMessage)>>

\* The key the result is expected to hold a metadata item under.
ExpectedKey ==
    [n \in ItemNames |->
        IF n = "Amount" THEN "amount"
        ELSE IF n = "MpesaReceiptNumber" THEN "mpesaReceiptNumber"
        ELSE IF n = "TransactionDate" THEN "transactionDate"
        ELSE IF n = "PhoneNumber" THEN "phoneNumber"
        ELSE n]

\* C6: a payload with ResultCode 0 and a metadata list yields SUCCESS and a
\* flat mapping that holds every item of the list under its key (the last
\* item of a key gives its value) and nothing else; a payload with another
\* numeric ResultCode yields FAILED and no mapping; both carry the payload's
\* correlation ids and result code.
C6_CallbackResult ==
    (cbLast.pc = "done" /\ cbLast.body.shape = "stkCallback") =>
        LET k == cbLast.body.stk
            items == k.CallbackMetadata.Item
            r == cbLast.outcome.result
            copied == /\ ~cbLast.outcome.threw
                      /\ r.merchantRequestID = k.MerchantRequestID
                      /\ r.checkoutRequestID = k.CheckoutRequestID
                      /\ r.resultCode = k.ResultCode
        IN  /\ (k.ResultCode = Int2(0) /\ k.CallbackMetadata.kind = "items") =>
                  /\ copied
                  /\ r.status = "SUCCESS"
                  /\ r.paymentData.present
                  /\ DOMAIN r.paymentData.map =
                        {ExpectedKey[items[i].Name] : i \in DOMAIN items}
                  /\ \A i \in DOMAIN items :
                        (\A j \in DOMAIN items :
                            j > i => ExpectedKey[items[j].Name] # ExpectedKey[items[i].Name])
                        => r.paymentData.map[ExpectedKey[items[i].Name]] = items[i].Value
            /\ (k.ResultCode.t = "num" /\ k.ResultCode.h # 0) =>
                  /\ copied
                  /\ r.status = "FAILED"
                  /\ ~r.paymentData.present

\* A successful payment with a documented item and an item the switch does
\* not name was folded into the mapping.
C6_Witness ==
    /\ cbLast.pc = "done"
    /\ cbLast.body.shape = "stkCallback"
    /\ cbLast.body.stk.ResultCode = Int2(0)
    /\ cbLast.outcome.result.status = "SUCCESS"
    /\ DOMAIN cbLast.outcome.result.paymentData.map = {"mpesaReceiptNumber", "Balance"}

\* C7 (as claimed): every callback that has the nested shape Body.stkCallback
\* is processed into a result, and only a callback without it raises.
C7_ShapeAloneDecides ==
    cbLast.pc = "done" =>
        (cbLast.outcome.threw <=> cbLast.body.shape # "stkCallback")

-----------------------------------------------------------------------------
(* The payment dispatcher: MpesaController.initiateSTKPush and             *)
(* MpesaService.initiateSTKPush.                                           *)

MaxAmount == 70000

\* Number(s) and parseFloat(s) of the strings an amount is given as.
StrToNumber(s) ==
    CASE s = "10" -> Int2(10)
      [] s = "70001" -> Int2(70001)
      [] s = "0" -> Int2(0)
      [] OTHER -> NaN

\* Number(v)
ToNumber(v) ==
    CASE v.t = "num" -> v
      [] v.t = "str" -> StrToNumber(v.s)
      [] v.t = "bool" -> Int2(1)
      [] OTHER -> NaN

\* parseFloat(v): a number is itself, a string is parsed, true reads "true".
ParseFloat(v) ==
    CASE v.t = "num" -> v
      [] v.t = "str" -> StrToNumber(v.s)
      [] OTHER -> NaN

\* isNaN(v)
IsNaN(v) == ToNumber(v).t = "nan"

\* Math.round(v) of a number counted in halves.
Round(v) == (v.h + 1) \div 2

\* !x for a value that is undefined, a string or a non-zero number.
FalsyChars(x) == x.t = "undef" \/ (x.t = "str" /\ x.chars = <<>>)

InvalidPhoneMessage == "Invalid phone number format. Use 254XXXXXXXXX format"

formatPhoneNumberUnchecked(phoneNumber) ==
    LET stripped == SelectSeq(phoneNumber, LAMBDA ch : ch \in Digits)
        formatted ==
            IF StartsWith(stripped, <<"0">>)
            THEN <<"2", "5", "4">> \o Tail(stripped)
            ELSE IF \/ StartsWith(stripped, <<"7", "1", "2">>)
                    \/ StartsWith(stripped, <<"7", "2", "2">>)
                    \/ StartsWith(stripped, <<"7", "3", "3">>)
            THEN <<"2", "5", "4">> \o stripped
            ELSE stripped
    IN  [ok |-> TRUE, value |-> formatted]

\* formatPhoneNumber(phoneNumber) for a string: [ok, value]; ok is FALSE when
\* it throws.
formatPhoneNumber(phoneNumber) ==
    LET stripped == SelectSeq(phoneNumber, LAMBDA ch : ch \in Digits)
        formatted ==
            IF StartsWith(stripped, <<"0">>)
            THEN <<"2", "5", "4">> \o Tail(stripped)
            ELSE IF \/ StartsWith(stripped, <<"7", "1", "2">>)
                    \/ StartsWith(stripped, <<"7", "2", "2">>)
                    \/ StartsWith(stripped, <<"7", "3", "3">>)
            THEN <<"2", "5", "4">> \o stripped
            ELSE IF StartsWith(stripped, <<"+", "2", "5", "4">>)
            THEN Tail(stripped)
            ELSE stripped
        matches == /\ Len(formatted) = 12
                   /\ StartsWith(formatted, <<"2", "5", "4">>)
                   /\ \A i \in DOMAIN formatted : formatted[i] \in Digits
    IN  [ok |-> matches, value |-> IF matches THEN formatted ELSE <<>>]

PayBill == "CustomerPayBillOnline"
BuyGoods == "CustomerBuyGoodsOnline"

\* The local transactionType of initiateSTKPush.
TransactionTypeFor(accountReference) ==
    IF /\ ~FalsyChars(accountReference)
       /\ Includes(ToLowerCase(accountReference.chars), <<"t", "i", "l", "l">>)
    THEN BuyGoods
    ELSE PayBill

\* process.env.MPESA_ACCOUNT_REFERENCE
DefaultReference == <<"E", "N", "V">>

\* The payload initiateSTKPush builds after it has the token.
BuildPayload(formattedPhone, amount, accountReference) ==
    [TransactionType |-> "CustomerPayBillOnline",
     Amount |-> Round(amount),
     PartyA |-> formattedPhone,
     PhoneNumber |-> formattedPhone,
     AccountReference |-> IF FalsyChars(accountReference)
                          THEN DefaultReference
                          ELSE accountReference.chars,
     Timestamp |-> now]

PhoneValues ==
    {NoChars, NotAString, Chars(<<>>),
     Chars(<<"0", "7", "1", "2", "3", "4", "5", "6", "7", "8">>),
     Chars(<<"1", "2", "3", "4", "5", "6", "7", "8", "9">>)}

AmountValues ==
    {Undefined, JSTrue, Str("10"), Str("abc"), Str("70001"), Str("0"),
     Int2(0), Int2(-5), Num(1), Num(3),
     Int2(MaxAmount), Int2(MaxAmount + 1)}

ReferenceValues ==
    {NoChars,
     Chars(<<"T", "E", "S", "T", "0", "0", "1">>),
     Chars(<<"T", "i", "l", "l", "1", "2", "3">>)}

StkBodies == [phone : PhoneValues, amount : AmountValues,
              accountReference : ReferenceValues]

\* What axios.post(stkPushUrl) may produce: a 2xx body, an HTTP error with or
\* without errorMessage, or no response at all.
PostResponses ==
    [kind : {"data"},
     ResponseCode : {Str("0"), Int2(0), Str("1")},
     ResponseDescription : {Undefined, Str("provider description")},
     errorMessage : {Undefined},
     MerchantRequestID : {Str("29115-34620561-1")},
     CheckoutRequestID : {Str("ws_CO_191220191020363925")}]
    \cup
    [kind : {"httpError"},
     ResponseCode : {Undefined}, ResponseDescription : {Undefined},
     errorMessage : {Undefined, Str("Bad Request - Invalid PhoneNumber")},
     MerchantRequestID : {Undefined}, CheckoutRequestID : {Undefined}]
    \cup
    {[NoPostResponse EXCEPT !.kind = "transport"]}

RequiredMessage == "Phone number and amount are required"
PositiveMessage == "Amount must be a valid positive number"
RangeMessage == "Amount must be between 1 and 70,000 KES"
NotAFunctionMessage == "phoneNumber.replace is not a function"
HttpErrorMessage == "Request failed with status code 400"
TransportMessage == "getaddrinfo ENOTFOUND"
StkFailedMessage == "STK Push failed"

\* The status the controller answers when its own checks fail.
ControllerInvalidStatus == 400

\* The controller's checks of req.body: "" when they pass, else the message.
ControllerCheck(body) ==
    IF FalsyChars(body.phone) \/ Falsy(body.amount)
    THEN RequiredMessage
    ELSE IF IsNaN(body.amount) \/ ToNumber(body.amount).h <= 0
    THEN PositiveMessage
    ELSE ""

ServiceCheckNoRange(phoneNumber, amount) ==
    IF FalsyChars(phoneNumber) \/ Falsy(amount)
    THEN RequiredMessage
    ELSE IF phoneNumber.t # "str"
    THEN NotAFunctionMessage
    ELSE IF ~formatPhoneNumber(phoneNumber.chars).ok
    THEN InvalidPhoneMessage
    ELSE ""

\* The checks of MpesaService.initiateSTKPush before it asks for the token:
\* "" when they pass, else the message of the error thrown.
ServiceCheck(phoneNumber, amount) ==
    IF FalsyChars(phoneNumber) \/ Falsy(amount)
    THEN RequiredMessage
    ELSE IF phoneNumber.t # "str"
    THEN NotAFunctionMessage
    ELSE IF ~formatPhoneNumber(phoneNumber.chars).ok
    THEN InvalidPhoneMessage
    ELSE IF amount.h < 2 \/ amount.h > 2 * MaxAmount
    THEN RangeMessage
    ELSE ""

\* The request is answered with an error status and message.
Fail(c, status, message) ==
    [c EXCEPT !.pc = "done", !.status = status, !.error = message]

\* POST /api/mpesa/stkpush with body, up to the first await.
STKPush(p, body) ==
    LET c == [IdleCall EXCEPT !.kind = "stkpush", !.body = body]
        amount == ParseFloat(body.amount)
    IN  /\ call[p].pc = "idle"
        /\ IF ControllerCheck(body) # ""
           THEN /\ call' = [call EXCEPT ![p] =
                              Fail(c, ControllerInvalidStatus, ControllerCheck(body))]
                /\ UNCHANGED tokenVars
           ELSE IF ServiceCheck(body.phone, amount) # ""
           THEN /\ call' = [call EXCEPT ![p] =
                              Fail(c, 500, ServiceCheck(body.phone, amount))]
                /\ UNCHANGED tokenVars
           ELSE GetAccessTokenBegin(p,
                    [c EXCEPT !.transactionType = TransactionTypeFor(body.accountReference)],
                    "gotToken")
        /\ UNCHANGED <<now, rateVars, cbLast, helper>>

\* The credential exchange of a stkpush request is answered.
STKPushAuthResponse(p) ==
    /\ call[p].kind = "stkpush"
    /\ \E r \in AuthResponses : GetAccessTokenEnd(p, r, "gotToken")
    /\ UNCHANGED <<now, rateVars, cbLast, helper>>

\* initiateSTKPush has the token: it builds the payload and POSTs it.
STKPushSend(p) ==
    /\ call[p].kind = "stkpush"
    /\ call[p].pc = "gotToken"
    /\ call' = [call EXCEPT ![p] =
                  [@ EXCEPT !.pc = "posting",
                            !.posts = @ + 1,
                            !.payload = BuildPayload(
                                formatPhoneNumber(call[p].body.phone.chars).value,
                                ParseFloat(call[p].body.amount),
                                call[p].body.accountReference)]]
    /\ UNCHANGED <<now, rateVars, tokenVars, cbLast, helper>>

IsSuccessCodeLoose(code) ==
    \/ code.t = "str" /\ code.s = "0"
    \/ code.t = "num" /\ code.h = 0

\* response.data.ResponseCode === "0"
IsSuccessCode(code) == code.t = "str" /\ code.s = "0"

\* The message of the error initiateSTKPush throws for the answer r.
PostErrorMessage(r) ==
    CASE r.kind = "data" ->
            IF Falsy(r.ResponseDescription) THEN StkFailedMessage
            ELSE r.ResponseDescription.s
      [] r.kind = "httpError" ->
            IF Falsy(r.errorMessage) THEN HttpErrorMessage ELSE r.errorMessage.s
      [] OTHER -> TransportMessage

\* The provider's answer r to the POST arrives; the controller responds.
STKPushResponse(p) ==
    /\ call[p].kind = "stkpush"
    /\ call[p].pc = "posting"
    /\ \E r \in PostResponses :
          call' = [call EXCEPT ![p] =
              IF r.kind = "data" /\ IsSuccessCode(r.ResponseCode)
              THEN [@ EXCEPT !.pc = "done", !.status = 200, !.resp = r,
                             !.result = [success |-> TRUE,
                                         merchantRequestID |-> r.MerchantRequestID,
                                         checkoutRequestID |-> r.CheckoutRequestID,
                                         responseCode |-> r.ResponseCode]]
              ELSE [Fail(@, 500, PostErrorMessage(r)) EXCEPT !.resp = r]]
    /\ UNCHANGED <<now, rateVars, tokenVars, cbLast, helper>>

StkTick ==
    /\ Tick
    /\ UNCHANGED <<rateVars, tokenVars, call, cbLast, helper>>

\* The process that sends payment requests.
StkProc == "p1"

NextStk ==
    \/ \E body \in StkBodies : STKPush(StkProc, body)
    \/ STKPushAuthResponse(StkProc)
    \/ STKPushSend(StkProc)
    \/ STKPushResponse(StkProc)
    \/ Finish(StkProc)
    \/ StkTick

SpecStk == Init /\ [][NextStk]_vars

\* The request body fails validation: phone or amount missing, amount not a
\* number or not positive, phone not normalisable to 254 and 9 digits, or
\* amount outside [1, 70000].
ValidationFailure(body) ==
    \/ FalsyChars(body.phone)
    \/ body.amount.t = "undef"
    \/ ToNumber(body.amount).t = "nan"
    \/ ToNumber(body.amount).h <= 0
    \/ body.phone.t # "str"
    \/ ~formatPhoneNumber(body.phone.chars).ok
    \/ ToNumber(body.amount).h < 2
    \/ ToNumber(body.amount).h > 2 * MaxAmount

\* C8 (as claimed): every validation failure is answered 400, and 500 is
\* answered only for provider or transport failures.
C8_ValidationIs400 ==
    LET c == call[StkProc] IN
    (c.kind = "stkpush" /\ c.pc = "done") =>
        /\ ValidationFailure(c.body) => c.status = 400
        /\ c.status = 500 => (~ValidationFailure(c.body) /\ (c.exch = 1 \/ c.posts = 1))

\* C9: initiateSTKPush returns a success result with the correlation pair of
\* the response only when the response code is the string "0"; for a
\* response with any other code it raises the provider's description (the
\* fixed message 'STK Push failed' when the provider gave none) and returns
\* no success result.
C9_SuccessOnlyOnCodeZero ==
    LET c == call[StkProc] IN
    (c.kind = "stkpush" /\ c.pc = "done") =>
        /\ c.result.success =>
              /\ c.resp.kind = "data"
              /\ c.resp.ResponseCode = Str("0")
              /\ c.result.merchantRequestID = c.resp.MerchantRequestID
              /\ c.result.checkoutRequestID = c.resp.CheckoutRequestID
              /\ c.status = 200 /\ c.error = ""
        /\ (c.resp.kind = "data" /\ c.resp.ResponseCode # Str("0")) =>
              /\ ~c.result.success
              /\ c.result = NoStkResult
              /\ c.status = 500
              /\ c.resp.ResponseDescription.t = "str" =>
                    c.error = c.resp.ResponseDescription.s
              /\ c.resp.ResponseDescription.t = "undef" => c.error = StkFailedMessage

\* The provider answered with the number 0 as code and a description, and
\* the request failed with that description.
C9_Witness ==
    LET c == call[StkProc] IN
    /\ c.kind = "stkpush" /\ c.pc = "done"
    /\ c.resp.kind = "data"
    /\ c.resp.ResponseCode = Int2(0)
    /\ c.error = "provider description"
    /\ c.status = 500

\* C10 (as claimed): the transaction type sent to the provider is buy-goods
\* for a reference containing 'till' in any case, and pay-bill otherwise.
C10_TillSelectsBuyGoods ==
    LET c == call[StkProc] IN
    (c.kind = "stkpush" /\ c.posts = 1) =>
        c.payload.TransactionType =
            IF /\ c.body.accountReference.t = "str"
               /\ Includes(ToLowerCase(c.body.accountReference.chars),
                           <<"t", "i", "l", "l">>)
            THEN BuyGoods
            ELSE PayBill

\* The arguments of initiateSTKPush fail its validation: the phone or the
\* amount is missing (an amount of 0 or NaN counts as missing), the phone is
\* not a string that normalises to 254 and 9 digits, or the amount is
\* outside [1, 70000].
StkInputInvalid(phoneNumber, amount) ==
    \/ phoneNumber.t # "str"
    \/ phoneNumber.chars = <<>>
    \/ ~formatPhoneNumber(phoneNumber.chars).ok
    \/ amount.t # "num"
    \/ amount.h = 0
    \/ amount.h < 2
    \/ amount.h > 2 * MaxAmount

\* C15: in a payment request, failed validation means no credential
\* exchange, no payment POST and no write to the token cache; a POST is sent
\* only with a token in hand, a failed credential exchange means no POST, and
\* a request makes at most one credential exchange and at most one POST.
C15_ValidateThenTokenThenPost ==
    LET c == call[StkProc] IN
    c.kind = "stkpush" =>
        /\ StkInputInvalid(c.body.phone, ParseFloat(c.body.amount)) =>
              /\ c.pc = "done"
              /\ c.status # 200
              /\ c.exch = 0
              /\ c.posts = 0
              /\ c.stored = NoStore
        /\ c.posts >= 1 => (c.token # NullToken /\ \E i \in issued : i.token = c.token)
        /\ c.error = AuthErrorMessage => c.posts = 0
        /\ c.exch <= 1
        /\ c.posts <= 1

\* A request whose amount is out of range is refused by initiateSTKPush
\* while the cache holds a token from an earlier request.
C15_Witness ==
    LET c == call[StkProc] IN
    /\ c.kind = "stkpush" /\ c.pc = "done"
    /\ c.error = RangeMessage
    /\ accessToken # NullToken
    /\ c.exch = 0 /\ c.posts = 0

-----------------------------------------------------------------------------
(* The functions of utils/helpers.js, called on their own.  helper holds the
   call in progress: its arguments and, once it has returned or thrown, its
   outcome. *)

\* The caller has taken the outcome of the call.
HelperDone ==
    /\ helper.pc = "done"
    /\ helper' = NoHelper
    /\ UNCHANGED <<now, rateVars, tokenVars, call, cbLast>>

\* How many trailing characters the phone inputs may lose.
MaxPhoneDrop == 1

PhonePrefixes ==
    {<<>>, <<"0">>, <<"+">>, <<"2", "5", "4">>, <<"+", "2", "5", "4">>,
     <<"0", "0">>, <<"2", "5", "4", "0">>}

PhoneStems ==
    {<<"7", "1", "2", "3", "4", "5", "6", "7", "8">>,
     <<"7", "2", "2", " ", "0", "0", "0", " ", "1", "1", "1">>,
     <<"7", "3", "3", "-", "4", "5", "6", "-", "7", "8", "9">>,
     <<"1", "1", "2", "3", "4", "5", "6", "7", "8">>,
     <<"7", "1", "2", "3", "4", "5", "6", "7", "8", "9">>,
     <<"1", "2", "3", "4">>}

PhoneSuffixes == {<<>>, <<"9">>, <<" ">>, <<"x">>}

\* The strings formatPhoneNumber is called with.
PhoneInputs ==
    {prefix \o SubSeq(stem, 1, Len(stem) - drop) \o suffix :
        prefix \in PhonePrefixes, stem \in PhoneStems,
        drop \in 0..MaxPhoneDrop, suffix \in PhoneSuffixes}

\* formatPhoneNumber(phoneNumber) is called and returns or throws.
FormatPhoneNumber ==
    /\ helper.pc = "none"
    /\ \E phoneNumber \in PhoneInputs :
          LET r == formatPhoneNumber(phoneNumber)
          IN  helper' = [fn |-> "formatPhoneNumber", pc |-> "done",
                         phoneNumber |-> phoneNumber,
                         threw |-> ~r.ok,
                         error |-> IF r.ok THEN "" ELSE InvalidPhoneMessage,
                         result |-> r.value]
    /\ UNCHANGED <<now, rateVars, tokenVars, call, cbLast>>

NextPhone == FormatPhoneNumber \/ HelperDone

SpecPhone == Init /\ [][NextPhone]_vars

Canonical254 == <<"2", "5", "4", "7", "1", "2", "3", "4", "5", "6", "7", "8">>

\* C12: formatPhoneNumber returns 254 followed by 9 digits or throws the
\* format error; the local form, the bare subscriber number and the +254
\* form of one number all give the same 12 digits, and '123' is refused.
C12_PhoneFormat ==
    (helper.fn = "formatPhoneNumber" /\ helper.pc = "done") =>
        /\ IF helper.threw
           THEN helper.error = InvalidPhoneMessage
           ELSE /\ Len(helper.result) = 12
                /\ SubSeq(helper.result, 1, 3) = <<"2", "5", "4">>
                /\ \A i \in 1..12 : helper.result[i] \in Digits
        /\ helper.phoneNumber \in {<<"0", "7", "1", "2", "3", "4", "5", "6", "7", "8">>,
                                   <<"7", "1", "2", "3", "4", "5", "6", "7", "8">>,
                                   <<"+", "2", "5", "4", "7", "1", "2", "3", "4", "5", "6", "7", "8">>}
              => (~helper.threw /\ helper.result = Canonical254)
        /\ helper.phoneNumber = <<"1", "2", "3">> => helper.threw

\* The +254 form of a number has been normalised.
C12_Witness ==
    /\ helper.fn = "formatPhoneNumber" /\ helper.pc = "done"
    /\ helper.phoneNumber = <<"+", "2", "5", "4", "7", "1", "2", "3", "4", "5", "6", "7", "8">>
    /\ helper.result = Canonical254

-----------------------------------------------------------------------------
(* Amount validation: isValidAmount, and the amount checks of
   initiateSTKPush on the amount the controller hands it. *)

isValidAmountExclusive(amount) ==
    /\ ~IsNaN(amount)
    /\ ToNumber(amount).h > 2
    /\ ToNumber(amount).h <= 2 * MaxAmount

\* !isNaN(amount) && amount >= 1 && amount <= 70000
isValidAmount(amount) ==
    /\ ~IsNaN(amount)
    /\ ToNumber(amount).h >= 2
    /\ ToNumber(amount).h <= 2 * MaxAmount

\* How far, in halves, the amount inputs reach on each side of 0 and of the
\* upper limit.
MaxAmountSpread == 30

\* The values the amount checks are given.
AmountInputs ==
    {Num(h) : h \in (-MaxAmountSpread)..MaxAmountSpread}
    \cup {Num(2 * MaxAmount + d) : d \in (-MaxAmountSpread)..MaxAmountSpread}
    \cup {Undefined, NaN, JSTrue, Str("10"), Str("abc"), Str("70001"), Str("0")}

\* A phone number that formatPhoneNumber accepts.
SomeValidPhone == Chars(<<"0", "7", "1", "2", "3", "4", "5", "6", "7", "8">>)

\* isValidAmount(amount) is called; next to its result the call records what
\* initiateSTKPush answers for parseFloat(amount) and a valid phone.
IsValidAmount ==
    /\ helper.pc = "none"
    /\ \E amount \in AmountInputs :
          helper' = [fn |-> "isValidAmount", pc |-> "done",
                     amount |-> amount,
                     result |-> isValidAmount(amount),
                     serviceError |-> ServiceCheck(SomeValidPhone, ParseFloat(amount))]
    /\ UNCHANGED <<now, rateVars, tokenVars, call, cbLast>>

NextAmount == IsValidAmount \/ HelperDone

SpecAmount == Init /\ [][NextAmount]_vars

\* v is a number from 1 to 70000.
InClosedRange(v) == v.t = "num" /\ v.h >= 2 /\ v.h <= 2 * MaxAmount

\* v is a whole number from 1 to 70000.
PositiveIntegerInRange(v) == InClosedRange(v) /\ v.h % 2 = 0

\* C13 (as claimed): both checks accept a value exactly when it is a
\* positive integer from 1 to 70000.
C13_AcceptsOnlyIntegers ==
    (helper.fn = "isValidAmount" /\ helper.pc = "done") =>
        /\ helper.result <=> PositiveIntegerInRange(ToNumber(helper.amount))
        /\ helper.serviceError = "" <=> PositiveIntegerInRange(ParseFloat(helper.amount))

\* C13 (amended): both checks accept a value exactly when its numeric value
\* lies in the closed range from 1 to 70000, whole or not; 0, negative
\* values, values without a numeric value and 70001 are rejected.
C13_AcceptsClosedRange ==
    (helper.fn = "isValidAmount" /\ helper.pc = "done") =>
        /\ helper.result <=> InClosedRange(ToNumber(helper.amount))
        /\ helper.serviceError = "" <=> InClosedRange(ParseFloat(helper.amount))
        /\ helper.amount \in {Int2(0), Int2(-5), Str("abc"), Undefined, NaN,
                              Int2(MaxAmount + 1), Str("70001")}
              => (~helper.result /\ helper.serviceError # "")
        /\ helper.amount \in {Int2(1), Int2(MaxAmount)}
              => (helper.result /\ helper.serviceError = "")

\* The amount 1.5 has been accepted by both checks.
C13_Witness ==
    /\ helper.fn = "isValidAmount" /\ helper.pc = "done"
    /\ helper.amount = Num(3)
    /\ helper.result
    /\ helper.serviceError = ""

-----------------------------------------------------------------------------
(* generatePassword: base64 of the concatenation of its three arguments. *)

\* The characters the password inputs are made of, and their byte in UTF-8.
PwChars == {"1", "a"}
CharCode(ch) == IF ch = "1" THEN 49 ELSE 97

\* The longest short code, passkey or timestamp among the inputs.
MaxPwLen == 1

PwStrings == UNION {[1..n -> PwChars] : n \in 0..MaxPwLen}

\* Buffer.from(string): the bytes of the string.
BufferFrom(string) == [i \in 1..Len(string) |-> CharCode(string[i])]

\* The padding character '=' among the indices of the base64 alphabet.
Base64Pad == 64

\* buffer.toString('base64'): the indices into the base64 alphabet, three
\* bytes to four characters, the last group padded with '='.
ToBase64(bytes) ==
    LET n == Len(bytes)
        byte(i) == IF i <= n THEN bytes[i] ELSE 0
    IN  [k \in 1..(4 * ((n + 2) \div 3)) |->
            LET g == (k - 1) \div 4
                j == (k - 1) % 4
                v == byte(3 * g + 1) * 65536 + byte(3 * g + 2) * 256 + byte(3 * g + 3)
                six == CASE j = 0 -> v \div 262144
                         [] j = 1 -> (v \div 4096) % 64
                         [] j = 2 -> (v \div 64) % 64
                         [] OTHER -> v % 64
            IN  IF 3 * g + j > n THEN Base64Pad ELSE six]

generatePasswordNoTimestamp(businessShortCode, passkey, timestamp) ==
    ToBase64(BufferFrom(businessShortCode \o passkey))

generatePassword(businessShortCode, passkey, timestamp) ==
    LET password == businessShortCode \o passkey \o timestamp
    IN  ToBase64(BufferFrom(password))

NoPwCall == [businessShortCode |-> <<>>, passkey |-> <<>>, timestamp |-> <<>>,
             password |-> <<>>]

\* One call of generatePassword, recorded with its arguments.
PwCall(businessShortCode, passkey, timestamp) ==
    [businessShortCode |-> businessShortCode, passkey |-> passkey,
     timestamp |-> timestamp,
     password |-> generatePassword(businessShortCode, passkey, timestamp)]

\* generatePassword is called a first time.
GeneratePasswordFirst ==
    /\ helper.pc = "none"
    /\ \E businessShortCode \in PwStrings, passkey \in PwStrings, timestamp \in PwStrings :
          helper' = [fn |-> "generatePassword", pc |-> "once",
                     first |-> PwCall(businessShortCode, passkey, timestamp),
                     second |-> NoPwCall]
    /\ UNCHANGED <<now, rateVars, tokenVars, call, cbLast>>

\* generatePassword is called a second time.
GeneratePasswordSecond ==
    /\ helper.fn = "generatePassword"
    /\ helper.pc = "once"
    /\ \E businessShortCode \in PwStrings, passkey \in PwStrings, timestamp \in PwStrings :
          helper' = [helper EXCEPT !.pc = "done",
                       !.second = PwCall(businessShortCode, passkey, timestamp)]
    /\ UNCHANGED <<now, rateVars, tokenVars, call, cbLast>>

NextPassword == GeneratePasswordFirst \/ GeneratePasswordSecond \/ HelperDone

SpecPassword == Init /\ [][NextPassword]_vars

\* The three inputs of a recorded call.
Triple(c) == <<c.businessShortCode, c.passkey, c.timestamp>>

\* In how many of the three inputs two recorded calls differ.
Differences(c, d) == Cardinality({i \in 1..3 : Triple(c)[i] # Triple(d)[i]})

\* C14 (as claimed): two calls give the same password exactly when their
\* three inputs are the same.
C14_DistinctTriplesDiffer ==
    (helper.fn = "generatePassword" /\ helper.pc = "done") =>
        (helper.first.password = helper.second.password
            <=> Triple(helper.first) = Triple(helper.second))

\* C14 (amended): two calls with the same three inputs give the same
\* password; two calls give the same password exactly when the short code,
\* passkey and timestamp of each, put one after the other, make the same
\* string; so the password differs when exactly one input differs.
C14_SameConcatenationSamePassword ==
    (helper.fn = "generatePassword" /\ helper.pc = "done") =>
        LET a == helper.first
            b == helper.second
        IN  /\ Triple(a) = Triple(b) => a.password = b.password
            /\ a.password = b.password
                  <=> a.businessShortCode \o a.passkey \o a.timestamp
                        = b.businessShortCode \o b.passkey \o b.timestamp
            /\ Differences(a, b) = 1 => a.password # b.password

\* Two calls that differ in the timestamp alone gave different passwords.
C14_Witness ==
    /\ helper.fn = "generatePassword" /\ helper.pc = "done"
    /\ helper.first.businessShortCode = helper.second.businessShortCode
    /\ helper.first.passkey = helper.second.passkey
    /\ helper.first.timestamp # helper.second.timestamp
    /\ helper.first.password # helper.second.password

-----------------------------------------------------------------------------
(* retryWithBackoff(fn, maxRetries, delay).  Each await of the function is a
   step of its own: the call of fn, the settling of the promise fn returned,
   and the timer between two attempts. *)

\* The largest maxRetries and the largest initial delay a call is given.
MaxRetries == 2
MaxDelay == 3

\* What fn resolves with and what it rejects with.
FnValues == {"value"}
FnErrors == {"error A", "error B"}

LastAttemptOffByOne(i, maxRetries) == i + 1 = maxRetries

\* if (i === maxRetries) break;
LastAttempt(i, maxRetries) == i = maxRetries

\* delay *= 2
Backoff(delay) == delay * 2

\* retryWithBackoff(fn, maxRetries, delay) is called: let i = 0 and the loop
\* test, before the first fn().
RetryWithBackoff ==
    /\ helper.pc = "none"
    /\ \E maxRetries \in 0..MaxRetries, delay \in 1..MaxDelay :
          helper' = [fn |-> "retryWithBackoff", pc |-> "loop",
                     maxRetries |-> maxRetries,
                     initialDelay |-> delay,   \* history: the delay argument
                     delay |-> delay,
                     i |-> 0,
                     lastError |-> "undefined",
                     invocations |-> 0,        \* history: calls of fn
                     outcomes |-> <<>>,        \* history: how each call of fn settled
                     waits |-> <<>>,           \* history: the timers armed
                     returned |-> "none",
                     threw |-> "none"]
    /\ UNCHANGED <<now, rateVars, tokenVars, call, cbLast>>

\* The loop test i <= maxRetries, then fn() or, past the loop, throw lastError.
RetryInvoke ==
    /\ helper.fn = "retryWithBackoff"
    /\ helper.pc = "loop"
    /\ helper' = IF helper.i <= helper.maxRetries
                 THEN [helper EXCEPT !.pc = "awaitFn", !.invocations = @ + 1]
                 ELSE [helper EXCEPT !.pc = "done", !.threw = helper.lastError]
    /\ UNCHANGED <<now, rateVars, tokenVars, call, cbLast>>

\* The promise of fn() is fulfilled: return await fn().
FnResolves ==
    /\ helper.fn = "retryWithBackoff"
    /\ helper.pc = "awaitFn"
    /\ \E v \in FnValues :
          helper' = [helper EXCEPT !.pc = "done", !.returned = v,
                       !.outcomes = Append(@, [ok |-> TRUE, v |-> v])]
    /\ UNCHANGED <<now, rateVars, tokenVars, call, cbLast>>

\* The promise of fn() is rejected: the catch block, up to the timer or to
\* the throw after the loop.
FnRejects ==
    /\ helper.fn = "retryWithBackoff"
    /\ helper.pc = "awaitFn"
    /\ \E error \in FnErrors :
          LET caught == [helper EXCEPT !.lastError = error,
                           !.outcomes = Append(@, [ok |-> FALSE, v |-> error])]
          IN  helper' = IF LastAttempt(helper.i, helper.maxRetries)
                        THEN [caught EXCEPT !.pc = "done", !.threw = error]
                        ELSE [caught EXCEPT !.pc = "timer",
                                !.waits = Append(@, helper.delay)]
    /\ UNCHANGED <<now, rateVars, tokenVars, call, cbLast>>

\* The timer fires: delay *= 2 and i++.
RetryTimer ==
    /\ helper.fn = "retryWithBackoff"
    /\ helper.pc = "timer"
    /\ helper' = [helper EXCEPT !.pc = "loop", !.delay = Backoff(@), !.i = @ + 1]
    /\ UNCHANGED <<now, rateVars, tokenVars, call, cbLast>>

NextRetry ==
    \/ RetryWithBackoff
    \/ RetryInvoke
    \/ FnResolves
    \/ FnRejects
    \/ RetryTimer
    \/ HelperDone

\* Every call of fn settles, every timer fires, and the function's own
\* steps are taken.
RetryFairness ==
    /\ WF_vars(RetryInvoke)
    /\ WF_vars(FnResolves \/ FnRejects)
    /\ WF_vars(RetryTimer)

SpecRetry == Init /\ [][NextRetry]_vars /\ RetryFairness

\* What a call of retryWithBackoff has done so far agrees with the contract.
RetryContract ==
    helper.fn = "retryWithBackoff" =>
        LET n == Len(helper.outcomes) IN
        /\ helper.invocations <= helper.maxRetries + 1
        /\ n <= helper.invocations
        /\ \A k \in 1..(n - 1) : ~helper.outcomes[k].ok
        /\ helper.waits = [k \in 1..Len(helper.waits) |-> helper.initialDelay * 2^(k - 1)]
        /\ helper.pc # "done" =>
              /\ helper.returned = "none" /\ helper.threw = "none"
              /\ Len(helper.waits) = IF helper.pc = "awaitFn"
                                     THEN helper.invocations - 1
                                     ELSE helper.invocations
        /\ helper.pc = "done" =>
              /\ n = helper.invocations
              /\ n >= 1
              /\ Len(helper.waits) = n - 1
              /\ IF helper.outcomes[n].ok
                 THEN /\ helper.returned = helper.outcomes[n].v
                      /\ helper.threw = "none"
                 ELSE /\ n = helper.maxRetries + 1
                      /\ helper.threw = helper.outcomes[n].v
                      /\ helper.returned = "none"

\* C17: a call of retryWithBackoff invokes fn at most maxRetries + 1 times,
\* returns the first success without a further invocation, throws the last
\* error after maxRetries + 1 failures, waits delay, 2*delay, 4*delay, ...
\* between attempts and not after the last, and ends once every invocation
\* of fn has ended.
C17_RetryContractAndTermination ==
    /\ []RetryContract
    /\ (helper.fn = "retryWithBackoff") ~> (helper.pc = "done")

\* A call given two retries failed three times, waited twice and threw the
\* third error.
C17_Witness ==
    /\ helper.fn = "retryWithBackoff" /\ helper.pc = "done"
    /\ helper.maxRetries = 2
    /\ helper.invocations = 3
    /\ Len(helper.waits) = 2
    /\ helper.threw = "error B"
    /\ helper.outcomes[2].v = "error A"

====
